---- MODULE Spec2Model ----
(***************************************************************************)
(* Model of the wallet demo (problem3/src/components/WalletDemo.tsx):      *)
(* WalletComparisonDemo shows either ProblematicWalletPage or              *)
(* OptimizedWalletPage; both read the balance list and the price table     *)
(* through useWalletBalances / usePrices and derive the displayed rows.    *)
(*                                                                         *)
(* JavaScript values that the pipeline computes with are records           *)
(* [t, v]: t is the kind ("number", "NaN", "undefined", "null") and v the  *)
(* value of a number in thousandths (fixed point, Scale = 1000).  Products *)
(* of the sampled amounts and prices are exact at this scale, and none of  *)
(* the values that toFixed(2) formats lies halfway between two hundredths. *)
(***************************************************************************)
EXTENDS Integers, Sequences, FiniteSets, TLC

VARIABLES
  mockBalances,         \* the array returned by useWalletBalances()
  mockPrices,           \* the object returned by usePrices()
  mounted,              \* TRUE once WalletComparisonDemo has rendered
  showOptimized,        \* useState(false) of WalletComparisonDemo
  balancesWithPriority, \* memo of OptimizedWalletPage
  sortedBalances,       \* memo of the page that is shown
  formattedBalances,    \* derived list of the page that is shown
  rows,                 \* the rendered rows of the page that is shown
  renderError,          \* "none", or the exception a render threw
  suppliedBalances,     \* history: the balance list as it was supplied
  suppliedPrices,       \* history: the price table as it was supplied
  runLog,               \* history: inputs and outputs of the last runs of
                        \* OptimizedWalletPage on the inputs as supplied
  changed,              \* history: the hook values that were new in the last render
  recomputed,           \* history: the useMemo bodies that ran in the last render
  problematicKept       \* history: what the filter of ProblematicWalletPage kept last

walletVars == <<mockBalances, mockPrices, mounted, showOptimized, balancesWithPriority,
                sortedBalances, formattedBalances, rows, renderError,
                suppliedBalances, suppliedPrices, runLog, changed, recomputed,
                problematicKept>>

\* the swap form that loads its prices with useQuery
VARIABLES
  queryStatus,          \* status of the prices query: "pending", "success", "error"
  fetchStatus,          \* "fetching", "waiting" (retry timer armed) or "idle"
  failureCount,         \* failures of the running fetch
  retryTimer,           \* delay of the armed retry timer in ms, 0 when none
  queryError,           \* message of the last error, "" when none
  queryData,            \* the price map the query holds, NoData before a success
  refetchCount,         \* history: clicks on Retry
  delayLog,             \* history: the retry delays of the running fetch
  showFromModal,
  showToModal,
  selectedFromToken,
  selectedToToken

exchangeVars == <<queryStatus, fetchStatus, failureCount, retryTimer, queryError,
                  queryData, refetchCount, delayLog, showFromModal, showToModal,
                  selectedFromToken, selectedToToken>>

\* the three sum_to_n functions, called with the same argument
VARIABLES
  sumArg,               \* the argument n of the running calls
  pcA, iA, sumA,        \* sum_to_n_a: position, i, sum
  pcB, iB, sumB,        \* sum_to_n_b: position, i, sum
  pcC, retC,            \* sum_to_n_c: position, returned value
  prevCall              \* history: argument and results of the calls before

sumVars == <<sumArg, pcA, iA, sumA, pcB, iB, sumB, pcC, retC, prevCall>>

\* the swap form with one currency modal
VARIABLES
  sendAmount,           \* text of the "Amount to send" input
  receiveAmount,        \* text of the read-only "Amount to receive" input
  sendCurrency,
  receiveCurrency,
  swapPrices,           \* useState({}) prices
  swapLoading,          \* useState(false) loading: a submission is in progress
  showModal,
  modalType,            \* '', 'send' or 'receive'
  searchTerm,
  swapFetch,            \* position of fetchPrices: "pending", "done", "failed"
  effectDue,            \* a dependency of the receive effect changed since it ran
  swapTimers,           \* history: submissions whose 2000 ms timer is running
  swapCount             \* history: clicks on the swap button

swapVars == <<sendAmount, receiveAmount, sendCurrency, receiveCurrency, swapPrices,
              swapLoading, showModal, modalType, searchTerm, swapFetch, effectDue,
              swapTimers, swapCount>>

\* the swap form that fetches its prices in an effect (problem2/src/App.jsx)
VARIABLES
  appPrices,            \* useState({}) prices
  appLoading,           \* useState(true) loading
  appError,             \* useState(null) error: Null or the message, a string
  appFetch,             \* position of fetchPrices: "not started", "pending", "done", "failed"
  appShowFromModal,
  appShowToModal,
  appFromToken,         \* selectedFromToken: the symbol of the token
  appToToken,           \* selectedToToken
  fromAmount,           \* values.fromAmount of the Formik form
  toAmount,             \* values.toAmount
  isSubmitting,
  appTimers,            \* history: submissions whose 2000 ms timer is running
  appAlert,             \* the alert of a submission is on the screen
  shownForm             \* which version of the swap form the page mounts

appVars == <<appPrices, appLoading, appError, appFetch, appShowFromModal, appShowToModal,
             appFromToken, appToToken, fromAmount, toAmount, isSubmitting, appTimers,
             appAlert, shownForm>>

vars == <<walletVars, exchangeVars, sumVars, swapVars, appVars>>

(***************************************************************************)
(* Bounds                                                                  *)
(***************************************************************************)
MaxLen == 3
MaxLog == 2
MaxRefetch == 2        \* clicks on Retry that are followed
MaxAttemptIndex == 6   \* largest attempt index retryDelay is evaluated at
MaxInFlight == 2       \* submissions counted at the same time
MaxSwaps == 1          \* clicks on the swap button that are followed
MaxUnits == 6          \* largest amount, in whole units, that is swapped to the send side
MaxChains == 2     \* longest balance list over the chain names
MaxN == 5      \* largest argument of sum_to_n
MaxNeg == 3    \* the arguments of sum_to_n go down to -MaxNeg

(***************************************************************************)
(* JavaScript values and operators                                         *)
(***************************************************************************)
Scale == 1000

Num(n) == [t |-> "number", v |-> n]
JsInt(n) == Num(n * Scale)
NaN == [t |-> "NaN", v |-> 0]
Undefined == [t |-> "undefined", v |-> 0]
Null == [t |-> "null", v |-> 0]

\* ToNumber: undefined -> NaN, null -> +0
ToNumber(x) ==
  CASE x.t = "number" -> x
    [] x.t = "null" -> Num(0)
    [] OTHER -> NaN

\* x > y
JsGt(x, y) ==
  LET a == ToNumber(x)
      b == ToNumber(y)
  IN  a.t = "number" /\ b.t = "number" /\ a.v > b.v

\* x <= y
JsLe(x, y) ==
  LET a == ToNumber(x)
      b == ToNumber(y)
  IN  a.t = "number" /\ b.t = "number" /\ a.v <= b.v

\* x - y
JsSub(x, y) ==
  LET a == ToNumber(x)
      b == ToNumber(y)
  IN  IF a.t = "number" /\ b.t = "number" THEN Num(a.v - b.v) ELSE NaN

\* x !== y, for x and y of the kinds above
StrictNotEqual(x, y) == x.t = "NaN" \/ y.t = "NaN" \/ x # y

\* x * y
JsMul(x, y) ==
  LET a == ToNumber(x)
      b == ToNumber(y)
  IN  IF a.t = "number" /\ b.t = "number"
      THEN Num((a.v \div Scale) * (b.v \div Scale) * Scale
               + (a.v \div Scale) * (b.v % Scale)
               + (a.v % Scale) * (b.v \div Scale)
               + ((a.v % Scale) * (b.v % Scale)) \div Scale)
      ELSE NaN

\* x ?? d
Coalesce(x, d) == IF x.t \in {"undefined", "null"} THEN d ELSE x

\* obj[key] on a Record<string, number>
Lookup(obj, key) == IF key \in DOMAIN obj THEN obj[key] ELSE Undefined

Abs(n) == IF n < 0 THEN 0 - n ELSE n

TwoDigits(n) == IF n < 10 THEN "0" \o ToString(n) ELSE ToString(n)

\* Number.prototype.toFixed is a property of numbers only (NaN included)
HasToFixed(x) == x.t \in {"number", "NaN"}

\* x.toFixed(2): the nearest hundredth, the larger one on a tie
toFixed2(x) ==
  IF x.t = "NaN" THEN "NaN"
  ELSE LET n == (Abs(x.v) + 5) \div 10
       IN  (IF x.v < 0 THEN "-" ELSE "") \o ToString(n \div 100) \o "." \o TwoDigits(n % 100)

\* x.toFixed(): no fraction digits
toFixed0(x) ==
  IF x.t = "NaN" THEN "NaN"
  ELSE LET n == (Abs(x.v) + 500) \div 1000
       IN  (IF x.v < 0 THEN "-" ELSE "") \o ToString(n)

(***************************************************************************)
(* Sampled inputs: ledger and ticker names of the demo data, amounts of    *)
(* every sign, amounts that are not numbers, price tables with gaps.       *)
(***************************************************************************)
Bal(c, a, b) == [currency |-> c, amount |-> a, blockchain |-> b]

SampleBalances ==
  { Bal("SWTH", Num(10000), "Ethereum"),
    Bal("BTC", Num(0), "Osmosis"),
    Bal("ETH", Num(-5000), "Neo"),
    Bal("ZIL", Num(1000000), "Zilliqa"),
    Bal("NEO", Num(25500), "Neo"),
    Bal("BTC", Num(100), "Bitcoin"),
    Bal("OSMO", Num(2348), "Osmosis"),
    Bal("DOGE", NaN, "Dogecoin"),
    Bal("USDT", Undefined, "Ethereum"),
    Bal("ETH", Null, "Ethereum"),
    Bal("DOGE", Null, "Dogecoin") }

SamplePrices ==
  { <<>>,
    [SWTH |-> Num(100)],
    [SWTH |-> Num(100), BTC |-> Num(4500000), OSMO |-> Num(2000), NEO |-> Num(15000)] }

\* the demo data
DemoBalances ==
  << Bal("OSMO", Num(100500), "Osmosis"),
     Bal("ETH", Num(2300), "Ethereum"),
     Bal("ARB", Num(50000), "Arbitrum"),
     Bal("ZIL", Num(1000000), "Zilliqa"),
     Bal("NEO", Num(25500), "Neo"),
     Bal("BTC", Num(100), "Bitcoin"),
     Bal("USDT", Num(0), "Ethereum"),
     Bal("DOGE", Num(-10000), "Dogecoin") >>

DemoPrices ==
  [OSMO |-> Num(2500), ETH |-> Num(3000000), ARB |-> Num(1200), ZIL |-> Num(20),
   NEO |-> Num(15000), BTC |-> Num(45000000), USDT |-> Num(1000), DOGE |-> Num(80)]

\* two records whose names hold the separator of the row key
SeparatorBalances ==
  << Bal("LUNA", Num(5000), "Terra-Classic"),
     Bal("Classic-LUNA", Num(7000), "Terra") >>

BalanceLists == UNION { [1..n -> SampleBalances] : n \in 0..MaxLen }

(***************************************************************************)
(* Array.prototype methods.  map and filter return a new array and leave   *)
(* the receiver alone; sort reorders the receiver and returns it.          *)
(***************************************************************************)
Indices(arr) == 1..Len(arr)

\* sign of a comparator result as sort reads it: undefined and NaN count as +0
SortSign(r) ==
  LET n == ToNumber(r)
  IN  IF n.t # "number" THEN 0 ELSE IF n.v < 0 THEN -1 ELSE IF n.v > 0 THEN 1 ELSE 0

\* The comparator is handed to sort as the table of the signs it returns:
\* signs[<<i, j>>] is the sign of cmp(arr[i], arr[j]).
\* a consistent comparator for the elements of arr (ECMAScript, Array.prototype.sort)
ConsistentComparator(arr, signs) ==
  /\ \A i \in Indices(arr) : signs[<<i, i>>] = 0
  /\ \A i, j \in Indices(arr) : signs[<<i, j>>] = 0 - signs[<<j, i>>]
  /\ \A i, j, k \in Indices(arr) :
       (signs[<<i, j>>] <= 0 /\ signs[<<j, k>>] <= 0) => signs[<<i, k>>] <= 0

\* the stable order: an element goes after those that compare lower and after
\* the earlier ones that compare equal
StableSorted(arr, signs) ==
  LET pos(i) == Cardinality({ j \in Indices(arr) :
                                signs[<<j, i>>] < 0 \/ (signs[<<j, i>>] = 0 /\ j <= i) })
  IN  [p \in Indices(arr) |-> arr[CHOOSE i \in Indices(arr) : pos(i) = p]]

Reorderings(arr) ==
  { [p \in Indices(arr) |-> arr[f[p]]] :
      f \in { g \in [Indices(arr) -> Indices(arr)] :
                \A i, j \in Indices(arr) : i # j => g[i] # g[j] } }

\* A call is described by what it leaves in the receiver (self) and by the
\* array it returns (ret).
\* arr.sort(cmp): the stable order for a consistent comparator, an
\* implementation-defined order otherwise; the receiver is the returned array
ArraySort(arr, signs) ==
  { [self |-> s, ret |-> s] :
      s \in IF ConsistentComparator(arr, signs) THEN { StableSorted(arr, signs) }
            ELSE Reorderings(arr) }

\* arr.filter(f): keep[i] is the truth of f(arr[i]); a new array is returned
ArrayFilter(arr, keep) ==
  LET kept == { i \in Indices(arr) : keep[i] }
      nth(p) == CHOOSE i \in kept : Cardinality({ j \in kept : j <= i }) = p
  IN  [self |-> arr, ret |-> [p \in 1..Cardinality(kept) |-> arr[nth(p)]]]

\* arr.map(f): mapped[i] is f(arr[i]); a new array is returned
ArrayMap(arr, mapped) == [self |-> arr, ret |-> mapped]

(***************************************************************************)
(* ProblematicWalletPage                                                   *)
(***************************************************************************)
ProblematicGetPriority(blockchain) ==
  CASE blockchain = "Osmosis" -> JsInt(100)
    [] blockchain = "Ethereum" -> JsInt(50)
    [] blockchain = "Arbitrum" -> JsInt(30)
    [] blockchain = "Zilliqa" -> JsInt(20)
    [] blockchain = "Neo" -> JsInt(20)
    [] OTHER -> JsInt(-99)

\* variant: the test of the amount left out
ProblematicFilter_PriorityOnly(balance) ==
  LET balancePriority == ProblematicGetPriority(balance.blockchain)
  IN  IF JsGt(balancePriority, JsInt(-99)) THEN TRUE ELSE FALSE

ProblematicFilter(balance) ==
  LET balancePriority == ProblematicGetPriority(balance.blockchain)
  IN  IF JsGt(balancePriority, JsInt(-99))
      THEN (IF JsLe(balance.amount, JsInt(0)) THEN TRUE ELSE FALSE)
      ELSE FALSE

ProblematicCompare(lhs, rhs) ==
  LET leftPriority == ProblematicGetPriority(lhs.blockchain)
      rightPriority == ProblematicGetPriority(rhs.blockchain)
  IN  IF JsGt(leftPriority, rightPriority) THEN JsInt(-1)
      ELSE IF JsGt(rightPriority, leftPriority) THEN JsInt(1)
      ELSE JsInt(0)

\* balances.filter(...).sort(...): self is the balances array after the calls
ProblematicSortedBalances(balances) ==
  LET filtered == ArrayFilter(balances,
                      [i \in Indices(balances) |-> ProblematicFilter(balances[i])])
      kept == filtered.ret
      signs == [p \in Indices(kept) \X Indices(kept) |->
                  SortSign(ProblematicCompare(kept[p[1]], kept[p[2]]))]
  IN  { [self |-> filtered.self, kept |-> kept, ret |-> sorted.ret] :
        sorted \in ArraySort(kept, signs) }

ProblematicFormat(balance) ==
  [currency |-> balance.currency, amount |-> balance.amount,
   blockchain |-> balance.blockchain, formatted |-> toFixed0(balance.amount)]

\* balance.amount.toFixed() is a TypeError when amount is null or undefined
ProblematicThrows(sorted) == \E i \in Indices(sorted) : ~HasToFixed(sorted[i].amount)

ProblematicFormattedBalances(sorted) ==
  ArrayMap(sorted, [i \in Indices(sorted) |-> ProblematicFormat(sorted[i])])

ProblematicRows(sorted, prices) ==
  [index \in Indices(sorted) |->
     LET balance == sorted[index]
         usdValue == JsMul(Lookup(prices, balance.currency), balance.amount)
     IN  [key |-> ToString(index - 1), currency |-> balance.currency,
          formatted |-> toFixed2(balance.amount), blockchain |-> balance.blockchain,
          usdValue |-> toFixed2(usdValue)]]

(***************************************************************************)
(* OptimizedWalletPage                                                     *)
(***************************************************************************)
BLOCKCHAIN_PRIORITIES ==
  [Osmosis |-> JsInt(100), Ethereum |-> JsInt(50), Arbitrum |-> JsInt(30),
   Zilliqa |-> JsInt(20), Neo |-> JsInt(20)]

\* Members that an object literal inherits from Object.prototype; v numbers
\* the function objects
ObjectPrototype ==
  [constructor |-> [t |-> "function", v |-> 1], toString |-> [t |-> "function", v |-> 2]]

\* obj[key] for an object literal: an own property, or else an inherited one
GetProperty(obj, key) ==
  IF key \in DOMAIN obj THEN obj[key] ELSE Lookup(ObjectPrototype, key)

\* variant: the lookup without the fallback
getPriority_NoFallback(blockchain) == GetProperty(BLOCKCHAIN_PRIORITIES, blockchain)

getPriority(blockchain) ==
  Coalesce(GetProperty(BLOCKCHAIN_PRIORITIES, blockchain), JsInt(-99))

\* variant: an unlisted chain gets the lowest priority of the table
WithPriority_FallbackLowest(balance) ==
  [currency |-> balance.currency, amount |-> balance.amount,
   blockchain |-> balance.blockchain,
   priority |-> Coalesce(Lookup(BLOCKCHAIN_PRIORITIES, balance.blockchain), JsInt(20))]

WithPriority(balance) ==
  [currency |-> balance.currency, amount |-> balance.amount,
   blockchain |-> balance.blockchain, priority |-> getPriority(balance.blockchain)]

\* variant: the balances array is sorted before it is mapped
BalancesWithPriorityMemo_SortFirst(balances) ==
  LET signs == [p \in Indices(balances) \X Indices(balances) |->
                  SortSign(ProblematicCompare(balances[p[1]], balances[p[2]]))]
      sorted == CHOOSE r \in ArraySort(balances, signs) : TRUE
  IN  [self |-> sorted.self,
       ret |-> [i \in Indices(sorted.ret) |-> WithPriority(sorted.ret[i])]]

\* balances.map(...): self is the balances array after the call
BalancesWithPriorityMemo(balances) ==
  ArrayMap(balances, [i \in Indices(balances) |-> WithPriority(balances[i])])

\* variant: the inverted condition of the problematic page
OptimizedFilter_Inverted(balance) == JsLe(balance.amount, JsInt(0))

\* variant: the priority guard of the problematic page kept in the filter
OptimizedFilter_KnownOnly(balance) ==
  JsGt(balance.priority, JsInt(-99)) /\ JsGt(balance.amount, JsInt(0))

OptimizedFilter(balance) == JsGt(balance.amount, JsInt(0))

\* variant: ascending order
OptimizedCompare_Ascending(a, b) ==
  IF StrictNotEqual(a.priority, b.priority) THEN JsSub(a.priority, b.priority)
  ELSE JsInt(0)

\* variant: no return statement for equal priorities
OptimizedCompare_NoTieReturn(a, b) ==
  IF StrictNotEqual(a.priority, b.priority) THEN JsSub(b.priority, a.priority)
  ELSE Undefined

\* variant: equal priorities reported as greater
OptimizedCompare_TieIsGreater(a, b) ==
  IF StrictNotEqual(a.priority, b.priority) THEN JsSub(b.priority, a.priority)
  ELSE JsInt(1)

OptimizedCompare(a, b) ==
  IF StrictNotEqual(a.priority, b.priority) THEN JsSub(b.priority, a.priority)
  ELSE JsInt(0)

\* balancesWithPriority.filter(...).sort(...): self is balancesWithPriority
\* after the calls
SortedBalancesMemo(withPriority) ==
  LET filtered == ArrayFilter(withPriority,
                      [i \in Indices(withPriority) |-> OptimizedFilter(withPriority[i])])
      kept == filtered.ret
      signs == [p \in Indices(kept) \X Indices(kept) |->
                  SortSign(OptimizedCompare(kept[p[1]], kept[p[2]]))]
  IN  { [self |-> filtered.self, ret |-> sorted.ret] : sorted \in ArraySort(kept, signs) }

\* variant: the product of the problematic page, without the default price
UsdValue_NoDefault(balance, prices) ==
  JsMul(Lookup(prices, balance.currency), balance.amount)

UsdValue(balance, prices) ==
  JsMul(Coalesce(Lookup(prices, balance.currency), JsInt(0)), balance.amount)

\* variant: toFixed() without digits, as the problematic page formats
Format_NoDigits(balance, prices) ==
  [currency |-> balance.currency, amount |-> balance.amount,
   blockchain |-> balance.blockchain, priority |-> balance.priority,
   formatted |-> toFixed0(balance.amount), usdValue |-> UsdValue(balance, prices)]

Format(balance, prices) ==
  [currency |-> balance.currency, amount |-> balance.amount,
   blockchain |-> balance.blockchain, priority |-> balance.priority,
   formatted |-> toFixed2(balance.amount), usdValue |-> UsdValue(balance, prices)]

FormatThrows(sorted) == \E i \in Indices(sorted) : ~HasToFixed(sorted[i].amount)

\* variant: records without a price are left out
FormattedBalancesMemo_PricedOnly(sorted, prices) ==
  LET priced == ArrayFilter(sorted,
                    [i \in Indices(sorted) |-> sorted[i].currency \in DOMAIN prices]).ret
      mapped == ArrayMap(priced, [i \in Indices(priced) |-> Format(priced[i], prices)])
  IN  [self |-> sorted, prices |-> prices, ret |-> mapped.ret]

\* sortedBalances.map(...): prices is the price table after the call
FormattedBalancesMemo(sorted, prices) ==
  LET mapped == ArrayMap(sorted, [i \in Indices(sorted) |-> Format(sorted[i], prices)])
  IN  [self |-> mapped.self, prices |-> prices, ret |-> mapped.ret]

RowKey(balance) == balance.blockchain \o "-" \o balance.currency

Row(balance) ==
  [key |-> RowKey(balance), currency |-> balance.currency,
   formatted |-> balance.formatted, blockchain |-> balance.blockchain,
   usdValue |-> toFixed2(balance.usdValue), priority |-> balance.priority]

RowsMemo(formatted) ==
  ArrayMap(formatted, [i \in Indices(formatted) |-> Row(formatted[i])]).ret

(***************************************************************************)
(* CryptoExchange: the swap form and its prices query                      *)
(***************************************************************************)
TOKENS == <<"SWTH", "ETH", "BTC", "USDC", "USDT", "SOL", "ADA", "DOT", "LINK", "UNI">>

NoData == [loaded |-> FALSE]

\* bodies of prices.json: arrays of { currency, price }
ResponseBodies ==
  { <<>>,
    << [currency |-> "SWTH", price |-> Num(100)],
       [currency |-> "ETH", price |-> Num(3000000)] >>,
    << [currency |-> "ETH", price |-> Num(2900000)],
       [currency |-> "BTC", price |-> Num(45000000)],
       [currency |-> "ETH", price |-> Num(3000000)] >> }

\* data.forEach(item => { priceMap[item.currency] = item.price }): a later item
\* of the same currency replaces the earlier one
PriceMap(data) ==
  LET currencies == { data[i].currency : i \in Indices(data) }
      last(c) == CHOOSE i \in Indices(data) :
                   /\ data[i].currency = c
                   /\ \A j \in Indices(data) : data[j].currency = c => j <= i
  IN  [c \in currencies |-> data[last(c)].price]

\* what a failed fetchPrices throws: the not-ok response, or the rejection of fetch
FetchErrors == {"Failed to fetch prices", "NetworkError"}

QueryRetry == 3

Min(a, b) == IF a <= b THEN a ELSE b

\* variant: the delay without its cap
retryDelay_NoCap(attemptIndex) == 1000 * 2 ^ attemptIndex

\* retryDelay: (attemptIndex) => Math.min(1000 * 2 ** attemptIndex, 30000)
retryDelay(attemptIndex) == Min(1000 * 2 ^ attemptIndex, 30000)

\* variant: one more retry
ShouldRetry_Inclusive(count) == count <= QueryRetry

\* retry: 3, a failed fetch is tried again while fewer than 3 failures were counted
ShouldRetry(count) == count < QueryRetry

\* useState initial values; useQuery starts the fetch when the form mounts
ExchangeInit ==
  /\ queryStatus = "pending"
  /\ fetchStatus = "fetching"
  /\ failureCount = 0
  /\ retryTimer = 0
  /\ queryError = ""
  /\ queryData = NoData
  /\ refetchCount = 0
  /\ delayLog = <<>>
  /\ showFromModal = FALSE
  /\ showToModal = FALSE
  /\ selectedFromToken = TOKENS[1]
  /\ selectedToToken = TOKENS[2]

isLoading == queryStatus = "pending" /\ fetchStatus # "idle"

\* neither the loading view nor the error view is returned
FormShown == ~isLoading /\ queryError = ""

\* fetchPrices throws: the retry timer is armed with retryDelay(failureCount), or
\* the query settles in error
FetchFails ==
  /\ fetchStatus = "fetching"
  /\ \E error \in FetchErrors :
       IF ShouldRetry(failureCount)
       THEN /\ retryTimer' = retryDelay(failureCount)
            /\ delayLog' = Append(delayLog, retryDelay(failureCount))
            /\ fetchStatus' = "waiting"
            /\ UNCHANGED <<queryStatus, queryError>>
       ELSE /\ queryStatus' = "error"
            /\ queryError' = error
            /\ fetchStatus' = "idle"
            /\ UNCHANGED <<retryTimer, delayLog>>
  /\ failureCount' = failureCount + 1
  /\ UNCHANGED <<queryData, refetchCount, showFromModal, showToModal,
                 selectedFromToken, selectedToToken>>
  /\ UNCHANGED <<walletVars, sumVars, swapVars, appVars>>

\* the armed delay has passed: fetchPrices is called again
RetryTimerFires ==
  /\ fetchStatus = "waiting"
  /\ fetchStatus' = "fetching"
  /\ retryTimer' = 0
  /\ UNCHANGED <<queryStatus, failureCount, queryError, queryData, refetchCount,
                 delayLog, showFromModal, showToModal, selectedFromToken,
                 selectedToToken>>
  /\ UNCHANGED <<walletVars, sumVars, swapVars, appVars>>

\* fetchPrices returns the price map
FetchSucceeds ==
  /\ fetchStatus = "fetching"
  /\ \E data \in ResponseBodies : queryData' = [loaded |-> TRUE, prices |-> PriceMap(data)]
  /\ queryStatus' = "success"
  /\ fetchStatus' = "idle"
  /\ failureCount' = 0
  /\ queryError' = ""
  /\ UNCHANGED <<retryTimer, refetchCount, delayLog, showFromModal, showToModal,
                 selectedFromToken, selectedToToken>>
  /\ UNCHANGED <<walletVars, sumVars, swapVars, appVars>>

\* <button onClick={() => refetch()}>Retry</button> of the error view
ClickRetry ==
  /\ ~isLoading
  /\ queryError # ""
  /\ fetchStatus = "idle"
  /\ refetchCount < MaxRefetch
  /\ refetchCount' = refetchCount + 1
  /\ fetchStatus' = "fetching"
  /\ failureCount' = 0
  /\ delayLog' = <<>>
  /\ IF queryData = NoData
     THEN queryStatus' = "pending" /\ queryError' = ""
     ELSE UNCHANGED <<queryStatus, queryError>>
  /\ UNCHANGED <<retryTimer, queryData, showFromModal, showToModal,
                 selectedFromToken, selectedToToken>>
  /\ UNCHANGED <<walletVars, sumVars, swapVars, appVars>>

\* onClick={() => setShowFromModal(true)}
OpenFromModal ==
  /\ FormShown
  /\ showFromModal' = TRUE
  /\ UNCHANGED <<queryStatus, fetchStatus, failureCount, retryTimer, queryError,
                 queryData, refetchCount, delayLog, showToModal, selectedFromToken,
                 selectedToToken>>
  /\ UNCHANGED <<walletVars, sumVars, swapVars, appVars>>

\* onClick={() => setShowToModal(true)}
OpenToModal ==
  /\ FormShown
  /\ showToModal' = TRUE
  /\ UNCHANGED <<queryStatus, fetchStatus, failureCount, retryTimer, queryError,
                 queryData, refetchCount, delayLog, showFromModal, selectedFromToken,
                 selectedToToken>>
  /\ UNCHANGED <<walletVars, sumVars, swapVars, appVars>>

\* onSelect of the modal "Select Token to Pay"
SelectFromToken ==
  /\ FormShown
  /\ showFromModal
  /\ \E k \in Indices(TOKENS) : selectedFromToken' = TOKENS[k]
  /\ showFromModal' = FALSE
  /\ UNCHANGED <<queryStatus, fetchStatus, failureCount, retryTimer, queryError,
                 queryData, refetchCount, delayLog, showToModal, selectedToToken>>
  /\ UNCHANGED <<walletVars, sumVars, swapVars, appVars>>

\* onSelect of the modal "Select Token to Receive"
SelectToToken ==
  /\ FormShown
  /\ showToModal
  /\ \E k \in Indices(TOKENS) : selectedToToken' = TOKENS[k]
  /\ showToModal' = FALSE
  /\ UNCHANGED <<queryStatus, fetchStatus, failureCount, retryTimer, queryError,
                 queryData, refetchCount, delayLog, showFromModal, selectedFromToken>>
  /\ UNCHANGED <<walletVars, sumVars, swapVars, appVars>>

\* onClose={() => setShowFromModal(false)}
CloseFromModal ==
  /\ FormShown
  /\ showFromModal
  /\ showFromModal' = FALSE
  /\ UNCHANGED <<queryStatus, fetchStatus, failureCount, retryTimer, queryError,
                 queryData, refetchCount, delayLog, showToModal, selectedFromToken,
                 selectedToToken>>
  /\ UNCHANGED <<walletVars, sumVars, swapVars, appVars>>

\* onClose={() => setShowToModal(false)}
CloseToModal ==
  /\ FormShown
  /\ showToModal
  /\ showToModal' = FALSE
  /\ UNCHANGED <<queryStatus, fetchStatus, failureCount, retryTimer, queryError,
                 queryData, refetchCount, delayLog, showFromModal, selectedFromToken,
                 selectedToToken>>
  /\ UNCHANGED <<walletVars, sumVars, swapVars, appVars>>

swapTokens ==
  /\ FormShown
  /\ selectedFromToken' = selectedToToken
  /\ selectedToToken' = selectedFromToken
  /\ UNCHANGED <<queryStatus, fetchStatus, failureCount, retryTimer, queryError,
                 queryData, refetchCount, delayLog, showFromModal, showToModal>>
  /\ UNCHANGED <<walletVars, sumVars, swapVars, appVars>>

(***************************************************************************)
(* The swap form with one currency modal (useState and useEffect)          *)
(***************************************************************************)
\* The text of an amount input: '' or a decimal numeral, v its value in units
\* of 10^-8 and d the number of fraction digits written
AmountScale == 100000000

EmptyText == [t |-> "empty", v |-> 0, d |-> 0]

Text(v, d) == [t |-> "text", v |-> v, d |-> d]

\* what is typed into the send input: nothing, 0, 1, 2
SendInputs == { EmptyText, Text(0, 0), Text(AmountScale, 0), Text(2 * AmountScale, 0) }

\* a value in a condition: '' is false, so are undefined, 0 and NaN
TruthyText(x) == x.t = "text"

Truthy(x) == x.t = "number" /\ x.v # 0

\* a * b / c to the nearest integer, the larger one on a tie, for a >= 0
MulDivRound(a, b, c) == (a \div c) * b + ((a % c) * b + c \div 2) \div c

availableTokens == <<"BTC", "ETH", "USDT", "USDC", "SWTH", "ADA", "DOT", "LINK">>

\* bodies of prices.json for the swap forms: arrays of { currency, price }
SwapResponseBodies ==
  { <<>>,
    << [currency |-> "BTC", price |-> Num(3000)],
       [currency |-> "ETH", price |-> Num(1000)],
       [currency |-> "SWTH", price |-> Num(0)] >>,
    << [currency |-> "ETH", price |-> Num(1000)],
       [currency |-> "USDT", price |-> Num(1000)],
       [currency |-> "ETH", price |-> Num(3000)],
       [currency |-> "BTC", price |-> Num(1000)] >> }

SearchTerms == {"", "eth"}

\* name or symbol, in lower case, includes the search term:
\* "eth" is in Ethereum / ETH and in Tether
filteredTokens(term) ==
  CASE term = "" -> { availableTokens[k] : k \in Indices(availableTokens) }
    [] term = "eth" -> {"ETH", "USDT"}

\* (parseFloat(sendAmount) * prices[sendCurrency] / prices[receiveCurrency]).toFixed(8)
ReceiveValue(send, sendPrice, receivePrice) ==
  Text(MulDivRound(send.v, sendPrice.v, receivePrice.v), 8)

\* the body of the effect on [sendAmount, sendCurrency, receiveCurrency, prices]
ReceiveAmountEffect(send, from, to, table) ==
  IF TruthyText(send) /\ Truthy(Lookup(table, from)) /\ Truthy(Lookup(table, to))
  THEN ReceiveValue(send, Lookup(table, from), Lookup(table, to))
  ELSE EmptyText

SwapFormInit ==
  /\ sendAmount = EmptyText
  /\ receiveAmount = EmptyText
  /\ sendCurrency = "BTC"
  /\ receiveCurrency = "ETH"
  /\ swapPrices = <<>>
  /\ swapLoading = FALSE
  /\ showModal = FALSE
  /\ modalType = ""
  /\ searchTerm = ""
  /\ swapFetch = "pending"
  /\ effectDue = TRUE
  /\ swapTimers = 0
  /\ swapCount = 0

\* variant: the currencies are not among the dependencies
ReceiveDeps_AmountOnly == <<sendAmount>>

\* the dependencies of the receive effect that handlers set
ReceiveDeps == <<sendAmount, sendCurrency, receiveCurrency>>

\* setPrices(priceMap): the fetch has returned an array
SwapPricesArrive ==
  /\ swapFetch = "pending"
  /\ \E data \in SwapResponseBodies : swapPrices' = PriceMap(data)
  /\ swapFetch' = "done"
  /\ effectDue' = TRUE
  /\ UNCHANGED <<sendAmount, receiveAmount, sendCurrency, receiveCurrency, swapLoading,
                 showModal, modalType, searchTerm, swapTimers, swapCount>>
  /\ UNCHANGED <<walletVars, exchangeVars, sumVars, appVars>>

\* catch (error): the error is logged, no state is set
SwapFetchThrows ==
  /\ swapFetch = "pending"
  /\ swapFetch' = "failed"
  /\ UNCHANGED <<sendAmount, receiveAmount, sendCurrency, receiveCurrency, swapPrices,
                 swapLoading, showModal, modalType, searchTerm, effectDue, swapTimers, swapCount>>
  /\ UNCHANGED <<walletVars, exchangeVars, sumVars, appVars>>

\* the receive effect runs after a render in which one of its dependencies changed
RunReceiveEffect ==
  /\ effectDue
  /\ receiveAmount' = ReceiveAmountEffect(sendAmount, sendCurrency, receiveCurrency, swapPrices)
  /\ effectDue' = FALSE
  /\ UNCHANGED <<sendAmount, sendCurrency, receiveCurrency, swapPrices, swapLoading,
                 showModal, modalType, searchTerm, swapFetch, swapTimers, swapCount>>
  /\ UNCHANGED <<walletVars, exchangeVars, sumVars, appVars>>

\* onChange={(e) => setSendAmount(e.target.value)}
EditSendAmount ==
  /\ \E value \in SendInputs : sendAmount' = value
  /\ effectDue' = (effectDue \/ sendAmount' # sendAmount)
  /\ UNCHANGED <<receiveAmount, sendCurrency, receiveCurrency, swapPrices, swapLoading,
                 showModal, modalType, searchTerm, swapFetch, swapTimers, swapCount>>
  /\ UNCHANGED <<walletVars, exchangeVars, sumVars, appVars>>

\* variant: the type is not stored
ModalTypeOnOpen_Forgotten(type) == modalType

\* setModalType(type)
ModalTypeOnOpen(type) == type

openCurrencyModal ==
  /\ \E type \in {"send", "receive"} : modalType' = ModalTypeOnOpen(type)
  /\ showModal' = TRUE
  /\ searchTerm' = ""
  /\ UNCHANGED <<sendAmount, receiveAmount, sendCurrency, receiveCurrency, swapPrices,
                 swapLoading, swapFetch, effectDue, swapTimers, swapCount>>
  /\ UNCHANGED <<walletVars, exchangeVars, sumVars, appVars>>

\* onChange={(e) => setSearchTerm(e.target.value)} of the modal
EditSearchTerm ==
  /\ showModal
  /\ \E term \in SearchTerms : searchTerm' = term
  /\ UNCHANGED <<sendAmount, receiveAmount, sendCurrency, receiveCurrency, swapPrices,
                 swapLoading, showModal, modalType, swapFetch, effectDue, swapTimers, swapCount>>
  /\ UNCHANGED <<walletVars, exchangeVars, sumVars, appVars>>

\* a token of the list in the modal is clicked
selectCurrency ==
  /\ showModal
  /\ \E symbol \in filteredTokens(searchTerm) :
       IF modalType = "send"
       THEN sendCurrency' = symbol /\ UNCHANGED receiveCurrency
       ELSE receiveCurrency' = symbol /\ UNCHANGED sendCurrency
  /\ showModal' = FALSE
  /\ UNCHANGED <<sendAmount, receiveAmount, swapPrices, swapLoading, modalType,
                 searchTerm, swapFetch, swapTimers, swapCount>>
  /\ effectDue' = (effectDue \/ ReceiveDeps' # ReceiveDeps)
  /\ UNCHANGED <<walletVars, exchangeVars, sumVars, appVars>>

\* onClick={() => setShowModal(false)} of the backdrop and of the close button
CloseModal ==
  /\ showModal
  /\ showModal' = FALSE
  /\ UNCHANGED <<sendAmount, receiveAmount, sendCurrency, receiveCurrency, swapPrices,
                 swapLoading, modalType, searchTerm, swapFetch, effectDue, swapTimers, swapCount>>
  /\ UNCHANGED <<walletVars, exchangeVars, sumVars, appVars>>

swapCurrencies ==
  /\ swapCount < MaxSwaps
  /\ receiveAmount.v <= MaxUnits * AmountScale
  /\ sendCurrency' = receiveCurrency
  /\ receiveCurrency' = sendCurrency
  /\ sendAmount' = receiveAmount
  /\ receiveAmount' = sendAmount
  /\ effectDue' = (effectDue \/ ReceiveDeps' # ReceiveDeps)
  /\ swapCount' = swapCount + 1
  /\ UNCHANGED <<swapPrices, swapLoading, showModal, modalType, searchTerm, swapFetch,
                 swapTimers>>
  /\ UNCHANGED <<walletVars, exchangeVars, sumVars, appVars>>

\* variant: the button is not disabled while loading
SwapButtonDisabled_NoLoading == ~TruthyText(sendAmount) \/ ~TruthyText(receiveAmount)

\* disabled={!sendAmount || !receiveAmount || loading}
SwapButtonDisabled == ~TruthyText(sendAmount) \/ ~TruthyText(receiveAmount) \/ swapLoading

\* the form is submitted: setLoading(true), then the 2000 ms timer
SwapHandleSubmit ==
  /\ ~SwapButtonDisabled
  /\ swapTimers < MaxInFlight
  /\ IF ~TruthyText(sendAmount) \/ ~TruthyText(receiveAmount)
     THEN UNCHANGED <<swapLoading, swapTimers, swapCount>>
     ELSE swapLoading' = TRUE /\ swapTimers' = swapTimers + 1
  /\ UNCHANGED <<sendAmount, receiveAmount, sendCurrency, receiveCurrency, swapPrices,
                 showModal, modalType, searchTerm, swapFetch, effectDue, swapCount>>
  /\ UNCHANGED <<walletVars, exchangeVars, sumVars, appVars>>

\* the timer has fired: setLoading(false), then the alert
SwapSubmitCompletes ==
  /\ swapTimers > 0
  /\ swapTimers' = swapTimers - 1
  /\ swapLoading' = FALSE
  /\ UNCHANGED <<sendAmount, receiveAmount, sendCurrency, receiveCurrency, swapPrices,
                 showModal, modalType, searchTerm, swapFetch, effectDue, swapCount>>
  /\ UNCHANGED <<walletVars, exchangeVars, sumVars, appVars>>

(***************************************************************************)
(* The swap form with two token modals (Formik, prices fetched in an       *)
(* effect)                                                                 *)
(***************************************************************************)
AppNoError == [t |-> "null", text |-> ""]

AppErrorOf(text) == [t |-> "string", text |-> text]

\* what is typed into the "You Pay" field: nothing, 0, 1, 2
FromInputs == { EmptyText, Text(0, 0), Text(AmountScale, 0), Text(2 * AmountScale, 0) }

\* prices[symbol] || 0, in thousandths
PriceOrZero(table, symbol) ==
  IF Truthy(Lookup(table, symbol)) THEN Lookup(table, symbol).v ELSE 0

\* the rate is the quotient num / den of two prices, or 0
getExchangeRate(table, from, to) ==
  LET fromPrice == PriceOrZero(table, from)
      toPrice == PriceOrZero(table, to)
  IN IF fromPrice = 0 \/ toPrice = 0
     THEN [num |-> 0, den |-> 1]
     ELSE [num |-> toPrice, den |-> fromPrice]

\* exchangeRate.toFixed(6), in millionths
RateText(rate) == MulDivRound(1000000, rate.num, rate.den)

\* (parseFloat(value) * exchangeRate).toFixed(6)
ToAmountValue(value, rate) ==
  Text(MulDivRound(value.v \div 100, rate.num, rate.den) * 100, 6)

\* the values after handleFromAmountChange has run with the rate of its render
handleFromAmountChange(values, value, rate) ==
  [ fromAmount |-> value,
    toAmount |-> IF TruthyText(value) /\ rate.num > 0
                 THEN ToAmountValue(value, rate)
                 ELSE values.toAmount ]

\* SwapSchema: both amounts are required, and positive numbers
SwapSchemaValid(values) ==
  /\ TruthyText(values.fromAmount) /\ values.fromAmount.v > 0
  /\ TruthyText(values.toAmount) /\ values.toAmount.v > 0

AppValues == [fromAmount |-> fromAmount, toAmount |-> toAmount]

\* the early returns of the component: loading view, error view, or the form
AppView ==
  IF appLoading THEN "loading"
  ELSE IF appError.t = "string" /\ appError.text # "" THEN "error"
  ELSE "form"

\* the form is on the screen and no alert blocks the page
AppFormUsable == AppView = "form" /\ ~appAlert

AppFormInit ==
  /\ appPrices = <<>>
  /\ appLoading = TRUE
  /\ appError = AppNoError
  /\ appFetch = "not started"
  /\ appShowFromModal = FALSE
  /\ appShowToModal = FALSE
  /\ appFromToken = TOKENS[1]
  /\ appToToken = TOKENS[2]
  /\ fromAmount = EmptyText
  /\ toAmount = EmptyText
  /\ isSubmitting = FALSE
  /\ appTimers = 0
  /\ appAlert = FALSE

AppInit == AppFormInit /\ shownForm = "two modals"

\* the effect of the mount: fetchPrices is called, setLoading(true), fetch
AppStartFetch ==
  /\ appFetch = "not started"
  /\ appFetch' = "pending"
  /\ appLoading' = TRUE
  /\ UNCHANGED <<appPrices, appError, appShowFromModal, appShowToModal, appFromToken,
                 appToToken, fromAmount, toAmount, isSubmitting, appTimers, appAlert,
                 shownForm>>
  /\ UNCHANGED <<walletVars, exchangeVars, sumVars, swapVars>>

\* variant: no finally block
FinallyLoading_Skipped(loading) == loading

\* finally { setLoading(false) }
FinallyLoading(loading) == FALSE

\* the response is an array: setPrices(priceMap), then the finally block
AppFetchSucceeds ==
  /\ appFetch = "pending"
  /\ \E data \in SwapResponseBodies : appPrices' = PriceMap(data)
  /\ appLoading' = FinallyLoading(appLoading)
  /\ appFetch' = "done"
  /\ UNCHANGED <<appError, appShowFromModal, appShowToModal, appFromToken, appToToken,
                 fromAmount, toAmount, isSubmitting, appTimers, appAlert, shownForm>>
  /\ UNCHANGED <<walletVars, exchangeVars, sumVars, swapVars>>

\* fetch, json() or forEach throws: setError in the catch block, then the
\* finally block
AppFetchThrows ==
  /\ appFetch = "pending"
  /\ appError' = AppErrorOf("Failed to fetch prices")
  /\ appLoading' = FinallyLoading(appLoading)
  /\ appFetch' = "failed"
  /\ UNCHANGED <<appPrices, appShowFromModal, appShowToModal, appFromToken, appToToken,
                 fromAmount, toAmount, isSubmitting, appTimers, appAlert, shownForm>>
  /\ UNCHANGED <<walletVars, exchangeVars, sumVars, swapVars>>

\* Retry of the error view: window.location.reload() mounts the page again
AppReload ==
  /\ AppView = "error"
  /\ appPrices' = <<>>
  /\ appLoading' = TRUE
  /\ appError' = AppNoError
  /\ appFetch' = "not started"
  /\ appShowFromModal' = FALSE
  /\ appShowToModal' = FALSE
  /\ appFromToken' = TOKENS[1]
  /\ appToToken' = TOKENS[2]
  /\ fromAmount' = EmptyText
  /\ toAmount' = EmptyText
  /\ isSubmitting' = FALSE
  /\ appTimers' = 0
  /\ appAlert' = FALSE
  /\ UNCHANGED shownForm
  /\ UNCHANGED <<walletVars, exchangeVars, sumVars, swapVars>>

\* onChange of the "You Pay" field
AppEditFromAmount ==
  /\ AppFormUsable
  /\ \E value \in FromInputs :
       LET after == handleFromAmountChange(AppValues, value,
                      getExchangeRate(appPrices, appFromToken, appToToken))
       IN fromAmount' = after.fromAmount /\ toAmount' = after.toAmount
  /\ UNCHANGED <<appPrices, appLoading, appError, appFetch, appShowFromModal,
                 appShowToModal, appFromToken, appToToken, isSubmitting, appTimers,
                 appAlert, shownForm>>
  /\ UNCHANGED <<walletVars, exchangeVars, sumVars, swapVars>>

\* onClick={() => setShowFromModal(true)}
AppOpenFromModal ==
  /\ AppFormUsable
  /\ appShowFromModal' = TRUE
  /\ UNCHANGED <<appPrices, appLoading, appError, appFetch, appShowToModal, appFromToken,
                 appToToken, fromAmount, toAmount, isSubmitting, appTimers, appAlert,
                 shownForm>>
  /\ UNCHANGED <<walletVars, exchangeVars, sumVars, swapVars>>

\* onClick={() => setShowToModal(true)}
AppOpenToModal ==
  /\ AppFormUsable
  /\ appShowToModal' = TRUE
  /\ UNCHANGED <<appPrices, appLoading, appError, appFetch, appShowFromModal, appFromToken,
                 appToToken, fromAmount, toAmount, isSubmitting, appTimers, appAlert,
                 shownForm>>
  /\ UNCHANGED <<walletVars, exchangeVars, sumVars, swapVars>>

\* onSelect of "Select Token to Pay": setSelectedFromToken, setShowFromModal(false)
AppSelectFromToken ==
  /\ AppFormUsable
  /\ appShowFromModal
  /\ \E k \in Indices(TOKENS) : appFromToken' = TOKENS[k]
  /\ appShowFromModal' = FALSE
  /\ UNCHANGED <<appPrices, appLoading, appError, appFetch, appShowToModal, appToToken,
                 fromAmount, toAmount, isSubmitting, appTimers, appAlert, shownForm>>
  /\ UNCHANGED <<walletVars, exchangeVars, sumVars, swapVars>>

\* onSelect of "Select Token to Receive"
AppSelectToToken ==
  /\ AppFormUsable
  /\ appShowToModal
  /\ \E k \in Indices(TOKENS) : appToToken' = TOKENS[k]
  /\ appShowToModal' = FALSE
  /\ UNCHANGED <<appPrices, appLoading, appError, appFetch, appShowFromModal, appFromToken,
                 fromAmount, toAmount, isSubmitting, appTimers, appAlert, shownForm>>
  /\ UNCHANGED <<walletVars, exchangeVars, sumVars, swapVars>>

\* onClose of either modal
AppCloseModal ==
  /\ AppFormUsable
  /\ \/ appShowFromModal /\ appShowFromModal' = FALSE /\ UNCHANGED appShowToModal
     \/ appShowToModal /\ appShowToModal' = FALSE /\ UNCHANGED appShowFromModal
  /\ UNCHANGED <<appPrices, appLoading, appError, appFetch, appFromToken, appToToken,
                 fromAmount, toAmount, isSubmitting, appTimers, appAlert, shownForm>>
  /\ UNCHANGED <<walletVars, exchangeVars, sumVars, swapVars>>

\* the tokens change sides; the values of the form are not touched
AppSwapTokens ==
  /\ AppFormUsable
  /\ appFromToken' = appToToken
  /\ appToToken' = appFromToken
  /\ UNCHANGED <<appPrices, appLoading, appError, appFetch, appShowFromModal,
                 appShowToModal, fromAmount, toAmount, isSubmitting, appTimers, appAlert,
                 shownForm>>
  /\ UNCHANGED <<walletVars, exchangeVars, sumVars, swapVars>>

\* disabled={!isValid || isSubmitting || !values.fromAmount}
AppSubmitDisabled ==
  ~SwapSchemaValid(AppValues) \/ isSubmitting \/ ~TruthyText(fromAmount)

\* the form is submitted and its values pass SwapSchema: handleSubmit runs,
\* setIsSubmitting(true), then the 2000 ms timer
AppHandleSubmit ==
  /\ AppFormUsable
  /\ ~AppSubmitDisabled
  /\ SwapSchemaValid(AppValues)
  /\ appTimers < MaxInFlight
  /\ isSubmitting' = TRUE
  /\ appTimers' = appTimers + 1
  /\ UNCHANGED <<appPrices, appLoading, appError, appFetch, appShowFromModal,
                 appShowToModal, appFromToken, appToToken, fromAmount, toAmount,
                 appAlert, shownForm>>
  /\ UNCHANGED <<walletVars, exchangeVars, sumVars, swapVars>>

\* the timer has fired: alert(...) is on the screen and blocks the page
AppTimerFires ==
  /\ appTimers > 0
  /\ ~appAlert
  /\ appTimers' = appTimers - 1
  /\ appAlert' = TRUE
  /\ UNCHANGED <<appPrices, appLoading, appError, appFetch, appShowFromModal,
                 appShowToModal, appFromToken, appToToken, fromAmount, toAmount,
                 isSubmitting, shownForm>>
  /\ UNCHANGED <<walletVars, exchangeVars, sumVars, swapVars>>

\* the alert is dismissed: setIsSubmitting(false), setSubmitting(false), resetForm()
AppAlertDismissed ==
  /\ appAlert
  /\ appAlert' = FALSE
  /\ isSubmitting' = FALSE
  /\ fromAmount' = EmptyText
  /\ toAmount' = EmptyText
  /\ UNCHANGED <<appPrices, appLoading, appError, appFetch, appShowFromModal,
                 appShowToModal, appFromToken, appToToken, appTimers, shownForm>>
  /\ UNCHANGED <<walletVars, exchangeVars, sumVars, swapVars>>

(***************************************************************************)
(* sum_to_n_a, sum_to_n_b, sum_to_n_c                                      *)
(***************************************************************************)
NoCall == [n |-> 0, a |-> 0, b |-> 0, c |-> 0, made |-> FALSE]

\* no call made yet
SumInit ==
  /\ sumArg = 0
  /\ pcA = "idle" /\ iA = 0 /\ sumA = 0
  /\ pcB = "idle" /\ iB = 0 /\ sumB = 0
  /\ pcC = "idle" /\ retC = 0
  /\ prevCall = NoCall

SumReturned == pcA = "done" /\ pcB = "done" /\ pcC = "done"

\* the three functions are called with the same n: let sum = 0, i = 1
CallSumToN ==
  /\ pcA \in {"idle", "done"} /\ pcB \in {"idle", "done"} /\ pcC \in {"idle", "done"}
  /\ \E n \in (0 - MaxNeg)..MaxN : sumArg' = n
  /\ prevCall' = IF SumReturned
                 THEN [n |-> sumArg, a |-> sumA, b |-> sumB, c |-> retC, made |-> TRUE]
                 ELSE prevCall
  /\ pcA' = "loop" /\ iA' = 1 /\ sumA' = 0
  /\ pcB' = "loop" /\ iB' = 1 /\ sumB' = 0
  /\ pcC' = "call" /\ retC' = 0
  /\ UNCHANGED <<walletVars, exchangeVars, swapVars, appVars>>

\* variant: the bound of the loop left out
sum_to_n_a_Cond_Exclusive(i, n) == i < n

\* for (let i = 1; i <= n; i++)
sum_to_n_a_Cond(i, n) == i <= n

\* variant: the term subtracted
sum_to_n_a_Body_Subtract(sum, i) == sum - i

\* sum = sum + i
sum_to_n_a_Body(sum, i) == sum + i

\* one pass of the for loop, or its exit and the return
sum_to_n_a_Step ==
  /\ pcA = "loop"
  /\ IF sum_to_n_a_Cond(iA, sumArg)
     THEN /\ sumA' = sum_to_n_a_Body(sumA, iA)
          /\ iA' = iA + 1
          /\ pcA' = pcA
     ELSE /\ pcA' = "done"
          /\ UNCHANGED <<iA, sumA>>
  /\ UNCHANGED <<sumArg, pcB, iB, sumB, pcC, retC, prevCall>>
  /\ UNCHANGED <<walletVars, exchangeVars, swapVars, appVars>>

\* while (i <= n)
sum_to_n_b_Cond(i, n) == i <= n

\* one pass of the while loop, or its exit and the return
sum_to_n_b_Step ==
  /\ pcB = "loop"
  /\ IF sum_to_n_b_Cond(iB, sumArg)
     THEN /\ sumB' = sumB + iB
          /\ iB' = iB + 1
          /\ pcB' = pcB
     ELSE /\ pcB' = "done"
          /\ UNCHANGED <<iB, sumB>>
  /\ UNCHANGED <<sumArg, pcA, iA, sumA, pcC, retC, prevCall>>
  /\ UNCHANGED <<walletVars, exchangeVars, swapVars, appVars>>

\* Array.from({ length: n }, (_, i) => i + 1): a length below 0 counts as 0
ArrayFromLength(n) == [k \in 1..(IF n > 0 THEN n ELSE 0) |-> (k - 1) + 1]

\* arr.reduce((total, num) => total + num, 0)
RECURSIVE ReduceAdd(_, _)
ReduceAdd(arr, total) ==
  IF arr = <<>> THEN total ELSE ReduceAdd(Tail(arr), total + Head(arr))

sum_to_n_c(n) == ReduceAdd(ArrayFromLength(n), 0)

sum_to_n_c_Call ==
  /\ pcC = "call"
  /\ retC' = sum_to_n_c(sumArg)
  /\ pcC' = "done"
  /\ UNCHANGED <<sumArg, pcA, iA, sumA, pcB, iB, sumB, prevCall>>
  /\ UNCHANGED <<walletVars, exchangeVars, swapVars, appVars>>

(***************************************************************************)
(* Rendering                                                               *)
(***************************************************************************)
AppendLog(log, entry) ==
  IF Len(log) < MaxLog THEN Append(log, entry) ELSE Append(Tail(log), entry)

\* an exception thrown while rendering leaves nothing on the page
RenderThrows(balancesAfter, pricesAfter, log) ==
  /\ renderError' = "TypeError"
  /\ mockBalances' = balancesAfter
  /\ mockPrices' = pricesAfter
  /\ balancesWithPriority' = <<>>
  /\ sortedBalances' = <<>>
  /\ formattedBalances' = <<>>
  /\ rows' = <<>>
  /\ recomputed' = {}
  /\ runLog' = log

\* the body of ProblematicWalletPage for the hook values balances and prices:
\* its useMemo depends on [balances, prices], the rest is computed in every render
ProblematicWalletPage(balances, prices, log) ==
  \E sorted \in ProblematicSortedBalances(balances) :
    /\ problematicKept' = sorted.kept
    /\ IF ProblematicThrows(sorted.ret)
       THEN RenderThrows(sorted.self, prices, log)
       ELSE /\ mockBalances' = sorted.self
            /\ mockPrices' = prices
            /\ balancesWithPriority' = <<>>
            /\ sortedBalances' = sorted.ret
            /\ formattedBalances' = ProblematicFormattedBalances(sorted.ret).ret
            /\ rows' = ProblematicRows(sorted.ret, prices)
            /\ renderError' = "none"
            /\ recomputed' = {"sortedBalances"}
            /\ runLog' = log

RenderProblematicWalletPage == ProblematicWalletPage(mockBalances, mockPrices, runLog)

\* the dependency arrays of the useMemo calls of OptimizedWalletPage
BalancesWithPriorityDeps == {"balances"}

\* variant: prices among the dependencies, as in the problematic page
SortedBalancesDeps_WithPrices == {"balancesWithPriority", "prices"}

SortedBalancesDeps == {"balancesWithPriority"}

\* variant: prices left out of the dependencies
FormattedBalancesDeps_NoPrices == {"sortedBalances"}

FormattedBalancesDeps == {"sortedBalances", "prices"}

RowsDeps == {"formattedBalances"}

\* useMemo runs its body when one of its dependencies is a new value
DepsChanged(deps, newValues) == deps \cap newValues # {}

\* the body of OptimizedWalletPage for the hook values balances and prices, of
\* which the ones in newValues are not the values of the render before; a
\* useMemo whose body runs returns a new array
OptimizedWalletPage(balances, prices, newValues, log) ==
  LET runWithPriority == DepsChanged(BalancesWithPriorityDeps, newValues)
      withPriority == IF runWithPriority THEN BalancesWithPriorityMemo(balances)
                      ELSE [self |-> balances, ret |-> balancesWithPriority]
      new1 == newValues \cup (IF runWithPriority THEN {"balancesWithPriority"} ELSE {})
      runSorted == DepsChanged(SortedBalancesDeps, new1)
      new2 == new1 \cup (IF runSorted THEN {"sortedBalances"} ELSE {})
      runFormatted == DepsChanged(FormattedBalancesDeps, new2)
      new3 == new2 \cup (IF runFormatted THEN {"formattedBalances"} ELSE {})
      runRows == DepsChanged(RowsDeps, new3)
      new4 == new3 \cup (IF runRows THEN {"rows"} ELSE {})
  IN  /\ UNCHANGED problematicKept
      /\ \E sorted \in (IF runSorted THEN SortedBalancesMemo(withPriority.ret)
                        ELSE { [self |-> withPriority.ret, ret |-> sortedBalances] }) :
        IF runFormatted /\ FormatThrows(sorted.ret)
        THEN RenderThrows(withPriority.self, prices, log)
        ELSE LET formatted == IF runFormatted THEN FormattedBalancesMemo(sorted.ret, prices)
                              ELSE [self |-> sorted.ret, prices |-> prices,
                                    ret |-> formattedBalances]
                 newRows == IF runRows THEN RowsMemo(formatted.ret) ELSE rows
             IN  /\ mockBalances' = withPriority.self
                 /\ mockPrices' = formatted.prices
                 /\ balancesWithPriority' = sorted.self
                 /\ sortedBalances' = formatted.self
                 /\ formattedBalances' = formatted.ret
                 /\ rows' = newRows
                 /\ renderError' = "none"
                 /\ recomputed' = new4 \ newValues
                 /\ runLog' = AppendLog(log,
                                [balances |-> balances, prices |-> prices,
                                 formattedBalances |-> formatted.ret, rows |-> newRows])

\* the first render of OptimizedWalletPage: every useMemo body runs
RenderOptimizedWalletPage ==
  OptimizedWalletPage(mockBalances, mockPrices, {"balances", "prices"}, runLog)

(***************************************************************************)
(* WalletComparisonDemo                                                    *)
(***************************************************************************)
\* nothing rendered yet, for the given hook values
WalletInit(balances, prices) ==
  /\ mockBalances = balances
  /\ mockPrices = prices
  /\ mounted = FALSE
  /\ showOptimized = FALSE
  /\ balancesWithPriority = <<>>
  /\ sortedBalances = <<>>
  /\ formattedBalances = <<>>
  /\ rows = <<>>
  /\ renderError = "none"
  /\ suppliedBalances = balances
  /\ suppliedPrices = prices
  /\ runLog = <<>>
  /\ changed = {}
  /\ recomputed = {}
  /\ problematicKept = <<>>

Init ==
  /\ \E balances \in BalanceLists \cup {DemoBalances, SeparatorBalances}, prices \in SamplePrices \cup {DemoPrices} :
       WalletInit(balances, prices)
  /\ ExchangeInit
  /\ SumInit
  /\ SwapFormInit
  /\ AppInit

\* first render: showOptimized is false, the problematic page is shown; a page
\* that mounts sees both hook values for the first time
MountDemo ==
  /\ ~mounted
  /\ mounted' = TRUE
  /\ changed' = {"balances", "prices"}
  /\ RenderProblematicWalletPage
  /\ UNCHANGED <<showOptimized, suppliedBalances, suppliedPrices>>
  /\ UNCHANGED <<exchangeVars, sumVars, swapVars, appVars>>

\* onClick={() => setShowOptimized(false)}: no render when the state is the same
ClickProblematic ==
  /\ mounted
  /\ renderError = "none"
  /\ IF showOptimized
     THEN /\ showOptimized' = FALSE
          /\ changed' = {"balances", "prices"}
          /\ RenderProblematicWalletPage
          /\ UNCHANGED <<mounted, suppliedBalances, suppliedPrices>>
          /\ UNCHANGED <<exchangeVars, sumVars, swapVars, appVars>>
     ELSE UNCHANGED vars

\* onClick={() => setShowOptimized(true)}
ClickOptimized ==
  /\ mounted
  /\ renderError = "none"
  /\ IF ~showOptimized
     THEN /\ showOptimized' = TRUE
          /\ changed' = {"balances", "prices"}
          /\ RenderOptimizedWalletPage
          /\ UNCHANGED <<mounted, suppliedBalances, suppliedPrices>>
          /\ UNCHANGED <<exchangeVars, sumVars, swapVars, appVars>>
     ELSE UNCHANGED vars

Next == MountDemo \/ ClickProblematic \/ ClickOptimized

Spec == Init /\ [][Next]_vars

\* Balance lists over chain names: the five of the table, one that is on no
\* list, and two that name members of Object.prototype; all amounts positive
ChainNames == DOMAIN BLOCKCHAIN_PRIORITIES \cup {"Solana", "constructor", "toString"}

ChainBalances ==
  UNION { [1..n -> { Bal("ETH", JsInt(5), chain) : chain \in ChainNames }] :
            n \in 1..MaxChains }

ChainNameInit ==
  /\ \E balances \in ChainBalances : WalletInit(balances, DemoPrices)
  /\ ExchangeInit
  /\ SumInit
  /\ SwapFormInit
  /\ AppInit

ChainNameSpec == ChainNameInit /\ [][Next]_vars

\* the pages of the wallet demo are not mounted
WalletIdle == WalletInit(<<>>, <<>>)

InitWalletIdle == WalletIdle /\ ExchangeInit /\ SumInit /\ SwapFormInit /\ AppInit

ExchangeNext ==
  \/ FetchFails
  \/ RetryTimerFires
  \/ FetchSucceeds
  \/ ClickRetry
  \/ OpenFromModal
  \/ OpenToModal
  \/ SelectFromToken
  \/ SelectToToken
  \/ CloseFromModal
  \/ CloseToModal
  \/ swapTokens

ExchangeSpec == InitWalletIdle /\ [][ExchangeNext]_vars

SumNext == CallSumToN \/ sum_to_n_a_Step \/ sum_to_n_b_Step \/ sum_to_n_c_Call

SumSpec == InitWalletIdle /\ [][SumNext]_vars

\* a call that has started runs on: each function takes its next step
SumFairSpec ==
  /\ SumSpec
  /\ WF_vars(sum_to_n_a_Step)
  /\ WF_vars(sum_to_n_b_Step)
  /\ WF_vars(sum_to_n_c_Call)

SwapFormNext ==
  \/ SwapPricesArrive
  \/ SwapFetchThrows
  \/ RunReceiveEffect
  \/ EditSendAmount
  \/ openCurrencyModal
  \/ EditSearchTerm
  \/ selectCurrency
  \/ CloseModal
  \/ swapCurrencies
  \/ SwapHandleSubmit
  \/ SwapSubmitCompletes

SwapFormSpec == InitWalletIdle /\ [][SwapFormNext]_vars

\* effects run after the render that schedules them, and timers fire
SwapFormFairSpec ==
  /\ SwapFormSpec
  /\ WF_vars(RunReceiveEffect)
  /\ WF_vars(SwapSubmitCompletes)

AppNext ==
  \/ AppStartFetch
  \/ AppFetchSucceeds
  \/ AppFetchThrows
  \/ AppReload
  \/ AppEditFromAmount
  \/ AppOpenFromModal
  \/ AppOpenToModal
  \/ AppSelectFromToken
  \/ AppSelectToToken
  \/ AppCloseModal
  \/ AppSwapTokens
  \/ AppHandleSubmit
  \/ AppTimerFires
  \/ AppAlertDismissed

AppSpec == InitWalletIdle /\ [][AppNext]_vars

\* the effect of the mount runs, the promise of the fetch settles, the timer
\* of a submission fires, and the alert is dismissed
AppFairSpec ==
  /\ AppSpec
  /\ WF_vars(AppStartFetch)
  /\ WF_vars(AppFetchSucceeds \/ AppFetchThrows)
  /\ WF_vars(AppTimerFires)
  /\ WF_vars(AppAlertDismissed)

\* Submissions in either version of the form.  In the form with one modal the
\* modal stays closed: it sets the currencies, which swapCurrencies changes as
\* well, and nothing else that a submission reads.
SubmitInit ==
  /\ WalletIdle /\ ExchangeInit /\ SumInit /\ SwapFormInit /\ AppFormInit
  /\ shownForm \in {"two modals", "one modal"}

SwapSubmitNext ==
  \/ SwapPricesArrive
  \/ SwapFetchThrows
  \/ RunReceiveEffect
  \/ EditSendAmount
  \/ swapCurrencies
  \/ SwapHandleSubmit
  \/ SwapSubmitCompletes

SubmitNext ==
  \/ shownForm = "two modals" /\ AppNext
  \/ shownForm = "one modal" /\ SwapSubmitNext

SubmitSpec == SubmitInit /\ [][SubmitNext]_vars

\* the 2000 ms timer of a submission fires, and the alert is dismissed
SubmitFairSpec ==
  /\ SubmitSpec
  /\ WF_vars(AppTimerFires)
  /\ WF_vars(AppAlertDismissed)
  /\ WF_vars(SwapSubmitCompletes)

\* a list with its elements in the opposite order
Reversed(arr) == [i \in Indices(arr) |-> arr[Len(arr) + 1 - i]]

\* the lists useWalletBalances() returns in turn: the demo list, edits of it
\* (reordered, first record dropped), and short lists with ties of priority and
\* amounts that are not numbers
ChangingBalances ==
  { DemoBalances,
    Reversed(DemoBalances),
    Tail(DemoBalances),
    <<>>,
    << Bal("NEO", Num(25500), "Neo"), Bal("ZIL", Num(1000000), "Zilliqa"),
       Bal("SWTH", Num(10000), "Ethereum") >>,
    << Bal("ZIL", Num(1000000), "Zilliqa"), Bal("DOGE", NaN, "Dogecoin"),
       Bal("NEO", Num(25500), "Neo"), Bal("BTC", Num(100), "Bitcoin") >> }

\* the tables usePrices() returns in turn
ChangingPrices == SamplePrices \cup {DemoPrices}

MemoInit ==
  /\ \E balances \in ChangingBalances, prices \in ChangingPrices :
       WalletInit(balances, prices)
  /\ ExchangeInit
  /\ SumInit
  /\ SwapFormInit
  /\ AppInit

\* the page on screen renders again with the new hook values
Rerender(balances, prices, newValues) ==
  /\ changed' = newValues
  /\ suppliedBalances' = balances
  /\ suppliedPrices' = prices
  /\ IF showOptimized
     THEN OptimizedWalletPage(balances, prices, newValues, <<>>)
     ELSE ProblematicWalletPage(balances, prices, <<>>)
  /\ UNCHANGED <<mounted, showOptimized>>
  /\ UNCHANGED <<exchangeVars, sumVars, swapVars, appVars>>

\* useWalletBalances() returns a new array
BalancesChange ==
  /\ mounted
  /\ renderError = "none"
  /\ \E balances \in ChangingBalances : Rerender(balances, mockPrices, {"balances"})

\* usePrices() returns a new object
PricesChange ==
  /\ mounted
  /\ renderError = "none"
  /\ \E prices \in ChangingPrices : Rerender(mockBalances, prices, {"prices"})

MemoNext ==
  \/ MountDemo
  \/ ClickProblematic
  \/ ClickOptimized
  \/ BalancesChange
  \/ PricesChange

MemoSpec == MemoInit /\ [][MemoNext]_vars

\* the optimized page is on screen
OptimizedShown == mounted /\ showOptimized /\ renderError = "none"

(***************************************************************************)
(* Properties                                                              *)
(***************************************************************************)
IsPositiveNumber(x) == x.t = "number" /\ x.v > 0

Raw(b) == [currency |-> b.currency, amount |-> b.amount, blockchain |-> b.blockchain]

Count(arr, r) == Cardinality({ i \in Indices(arr) : Raw(arr[i]) = r })

Configured == {"Osmosis", "Ethereum", "Arbitrum", "Zilliqa", "Neo"}

\* C1: every element the optimized page derives (sorted, formatted, row) comes
\* from a record whose amount is a number greater than 0; records with amount
\* 0 or below 0 never appear.
C1_OutputAmountsPositive ==
  OptimizedShown =>
    /\ \A i \in Indices(sortedBalances) : IsPositiveNumber(sortedBalances[i].amount)
    /\ \A i \in Indices(formattedBalances) : IsPositiveNumber(formattedBalances[i].amount)
    /\ Len(rows) = Len(formattedBalances)

C1_Witness ==
  /\ OptimizedShown
  /\ Len(formattedBalances) > 0
  /\ \E i \in Indices(mockBalances) :
       mockBalances[i].amount.t = "number" /\ mockBalances[i].amount.v = 0
  /\ \E i \in Indices(mockBalances) :
       mockBalances[i].amount.t = "number" /\ mockBalances[i].amount.v < 0

C3_ComparatorDefined ==
  /\ \A i, j \in Indices(balancesWithPriority) :
       LET a == balancesWithPriority[i]
           b == balancesWithPriority[j]
           r == OptimizedCompare(a, b)
       IN  /\ r.t = "number"
           /\ (a.priority.v > b.priority.v) => r.v < 0
           /\ (a.priority.v < b.priority.v) => r.v > 0
           /\ (a.priority.v = b.priority.v) => r.v = 0
  /\ \A i, j \in Indices(mockBalances) :
       LET a == mockBalances[i]
           b == mockBalances[j]
           pa == IF a.blockchain \in Configured
                 THEN BLOCKCHAIN_PRIORITIES[a.blockchain].v ELSE -99 * Scale
           pb == IF b.blockchain \in Configured
                 THEN BLOCKCHAIN_PRIORITIES[b.blockchain].v ELSE -99 * Scale
           r == ProblematicCompare(a, b)
       IN  /\ r.t = "number"
           /\ (pa > pb) => r.v < 0
           /\ (pa < pb) => r.v > 0
           /\ (pa = pb) => r.v = 0

\* the sort of the optimized page compared two distinct records of equal
\* priority and two records of different priority
C3_Witness ==
  /\ OptimizedShown
  /\ \E i, j \in Indices(sortedBalances) :
       /\ i # j
       /\ sortedBalances[i].blockchain # sortedBalances[j].blockchain
       /\ sortedBalances[i].priority = sortedBalances[j].priority
  /\ \E i, j \in Indices(sortedBalances) :
       sortedBalances[i].priority # sortedBalances[j].priority

ScaledProduct(amount, price) ==
  amount * (price \div Scale) + (amount * (price % Scale)) \div Scale

C6_OutputIsPermutationOfPositives ==
  OptimizedShown =>
    \A r \in { Raw(mockBalances[i]) : i \in Indices(mockBalances) }
             \cup { Raw(formattedBalances[i]) : i \in Indices(formattedBalances) } :
      Count(formattedBalances, r) =
        (IF IsPositiveNumber(r.amount) THEN Count(mockBalances, r) ELSE 0)

\* two kept records tie, a third record is dropped
C6_Witness ==
  /\ OptimizedShown
  /\ Len(mockBalances) = 3
  /\ Len(formattedBalances) = 2
  /\ formattedBalances[1].priority = formattedBalances[2].priority
  /\ Raw(formattedBalances[1]) # Raw(formattedBalances[2])

ScenarioBalances ==
  << Bal("SWTH", JsInt(10), "Ethereum"),
     Bal("BTC", JsInt(0), "Osmosis"),
     Bal("ETH", JsInt(-5), "Neo") >>

ScenarioPrices == [SWTH |-> Num(100)]

\* C7: for the balances SWTH 10 on Ethereum, BTC 0 on Osmosis, ETH -5 on Neo
\* and the price table SWTH 0.1, the output is the single element SWTH,
\* amount 10, Ethereum, priority 50, usdValue 1.0, formatted "10.00".
C7_Scenario ==
  (OptimizedShown /\ mockBalances = ScenarioBalances /\ mockPrices = ScenarioPrices) =>
    formattedBalances =
      << [currency |-> "SWTH", amount |-> [t |-> "number", v |-> 10000],
          blockchain |-> "Ethereum", priority |-> [t |-> "number", v |-> 50000],
          usdValue |-> [t |-> "number", v |-> 1000], formatted |-> "10.00"] >>

C7_Witness ==
  /\ OptimizedShown
  /\ mockBalances = ScenarioBalances
  /\ mockPrices = ScenarioPrices
  /\ Len(rows) = 1

\* C8: two runs of the optimized page on the same balance list and the same
\* price table give the same formatted list and the same rows.
C8_Deterministic ==
  \A i, j \in Indices(runLog) :
    (runLog[i].balances = runLog[j].balances /\ runLog[i].prices = runLog[j].prices) =>
      /\ runLog[i].formattedBalances = runLog[j].formattedBalances
      /\ runLog[i].rows = runLog[j].rows

\* the page ran twice on the same input and its output holds a tie
C8_Witness ==
  /\ Len(runLog) = 2
  /\ runLog[1].balances = runLog[2].balances
  /\ runLog[1].prices = runLog[2].prices
  /\ \E i, j \in Indices(runLog[2].formattedBalances) :
       /\ i # j
       /\ runLog[2].formattedBalances[i].priority = runLog[2].formattedBalances[j].priority
       /\ runLog[2].formattedBalances[i] # runLog[2].formattedBalances[j]

\* C9: rendering leaves the balance list and the price table as they were
\* supplied: same length, same order, same records, same prices.
C9_InputsUnchanged ==
  /\ mockBalances = suppliedBalances
  /\ mockPrices = suppliedPrices

\* the optimized page has sorted: its output order differs from the input order
C9_Witness ==
  /\ OptimizedShown
  /\ Len(sortedBalances) = Len(mockBalances)
  /\ Len(sortedBalances) >= 2
  /\ \E i \in Indices(sortedBalances) : Raw(sortedBalances[i]) # mockBalances[i]

\* C10: when some record's amount is not a number, rendering the optimized
\* page fails with an exception the caller sees.
C10_InvalidAmountFails ==
  (mounted /\ showOptimized /\
     \E i \in Indices(mockBalances) : mockBalances[i].amount.t # "number")
    => renderError # "none"


\* the (blockchain, currency) pairs of the balance list are pairwise distinct
DistinctPairs(arr) ==
  \A i, j \in Indices(arr) :
    (arr[i].blockchain = arr[j].blockchain /\ arr[i].currency = arr[j].currency) => i = j

\* C13: when the (blockchain, currency) pairs of the balance list are pairwise
\* distinct, the keys of the rows of the optimized page are pairwise distinct,
\* and the key of a row is made of its record alone, not of its position.
C13_RowKeysDistinct ==
  (OptimizedShown /\ DistinctPairs(mockBalances)) =>
    /\ \A i, j \in Indices(rows) : rows[i].key = rows[j].key => i = j
    /\ \A i \in Indices(rows) :
         rows[i].key = formattedBalances[i].blockchain \o "-" \o formattedBalances[i].currency

\* the lowest priority BLOCKCHAIN_PRIORITIES lists
LowestConfigured ==
  CHOOSE p \in { BLOCKCHAIN_PRIORITIES[c] : c \in DOMAIN BLOCKCHAIN_PRIORITIES } :
    \A c \in DOMAIN BLOCKCHAIN_PRIORITIES : p.v <= BLOCKCHAIN_PRIORITIES[c].v

ProblematicShown == mounted /\ ~showOptimized /\ renderError = "none"

\* C17: with the demo balance list, the filter of ProblematicWalletPage keeps
\* no record and the page shows no row.
C17_DemoShowsNoRows ==
  (ProblematicShown /\ suppliedBalances = DemoBalances) =>
    /\ problematicKept = <<>>
    /\ rows = <<>>

\* C20: on the same input the two pages keep no record in common: what the
\* filter of the problematic page keeps is on a listed chain and has an amount
\* that is <= 0, what the optimized page keeps has an amount above 0.
C20_NoRecordKeptByBoth ==
  /\ mounted =>
       \A i \in Indices(problematicKept) :
         /\ problematicKept[i].blockchain \in Configured
         /\ JsLe(problematicKept[i].amount, JsInt(0))
         /\ ~IsPositiveNumber(problematicKept[i].amount)
         /\ \E k \in Indices(suppliedBalances) : suppliedBalances[k] = problematicKept[i]
  /\ OptimizedShown =>
       /\ \A j \in Indices(sortedBalances) :
            /\ IsPositiveNumber(sortedBalances[j].amount)
            /\ \E k \in Indices(suppliedBalances) : suppliedBalances[k] = Raw(sortedBalances[j])
       /\ \A i \in Indices(problematicKept), j \in Indices(sortedBalances) :
            problematicKept[i] # Raw(sortedBalances[j])

\* both pages kept a record of the same list
C20_Witness ==
  /\ OptimizedShown
  /\ Len(problematicKept) > 0
  /\ Len(sortedBalances) > 0
  /\ \E k \in Indices(suppliedBalances) :
       suppliedBalances[k].blockchain \in Configured /\ IsPositiveNumber(suppliedBalances[k].amount)

\* the records of a derived list, in its order
RawSeq(arr) == [i \in Indices(arr) |-> Raw(arr[i])]

\* the optimized page was on screen and rendered again for a new price table
PricesOnlyStep ==
  /\ OptimizedShown
  /\ OptimizedShown'
  /\ changed' = {"prices"}

C18_MemoNeverStale ==
  OptimizedShown =>
    /\ mockBalances = suppliedBalances
    /\ mockPrices = suppliedPrices
    /\ \E sorted \in SortedBalancesMemo(BalancesWithPriorityMemo(suppliedBalances).ret) :
         LET formatted == FormattedBalancesMemo(sorted.ret, suppliedPrices).ret
         IN  /\ sortedBalances = sorted.ret
             /\ formattedBalances = formatted
             /\ rows = RowsMemo(formatted)

\* only some of the useMemo bodies ran in the last render, and rows are shown
C18_Witness ==
  /\ OptimizedShown
  /\ changed = {"prices"}
  /\ recomputed # {}
  /\ recomputed # {"balancesWithPriority", "sortedBalances", "formattedBalances", "rows"}
  /\ \E i \in Indices(rows) : rows[i].usdValue # "0.00"

\* C19: a render of the optimized page in which only the price table is new
\* runs the bodies of formattedBalances and rows only; balancesWithPriority and
\* sortedBalances are the arrays of the render before, and the output holds the
\* same records in the same order.
C19_PricesChangeRecomputesFormatOnly ==
  [][PricesOnlyStep =>
       /\ recomputed' = {"formattedBalances", "rows"}
       /\ balancesWithPriority' = balancesWithPriority
       /\ sortedBalances' = sortedBalances
       /\ mockBalances' = mockBalances
       /\ RawSeq(formattedBalances') = RawSeq(formattedBalances)
       /\ [i \in Indices(rows') |-> rows'[i].key] = [i \in Indices(rows) |-> rows[i].key]]_vars

\* the page rendered again for a new price table, with several rows on it
C19_Witness ==
  /\ OptimizedShown
  /\ changed = {"prices"}
  /\ recomputed = {"formattedBalances", "rows"}
  /\ Len(rows) >= 2
  /\ mockPrices # <<>>

\* 1 + 2 + ... + n in closed form, 0 when there is no term
SumUpTo(n) == IF n >= 1 THEN (n * (n + 1)) \div 2 ELSE 0

\* C15: for every n from -MaxNeg to MaxN, sum_to_n_a, sum_to_n_b and sum_to_n_c
\* return the same value: 1 + 2 + ... + n when n >= 1, and 0 when n <= 0.
C15_SumsEquivalent ==
  /\ pcA = "done" => sumA = SumUpTo(sumArg)
  /\ pcB = "done" => sumB = SumUpTo(sumArg)
  /\ pcC = "done" => retC = SumUpTo(sumArg)
  /\ SumReturned => (sumA = sumB /\ sumB = retC)

\* the three functions have returned for a negative n and then for an n above 1
C15_Witness ==
  /\ SumReturned
  /\ prevCall.made
  /\ prevCall.n < 0
  /\ sumArg > 1
  /\ sumA = sumArg + SumUpTo(sumArg - 1)

\* the calls before and the calls that have just returned agree with the order
\* of their arguments
SumMonotonic ==
  (SumReturned /\ prevCall.made) =>
    /\ prevCall.n <= sumArg =>
         (prevCall.a <= sumA /\ prevCall.b <= sumB /\ prevCall.c <= retC)
    /\ sumArg <= prevCall.n =>
         (sumA <= prevCall.a /\ sumB <= prevCall.b /\ retC <= prevCall.c)

\* C16: for m <= n, both from -MaxNeg to MaxN, the sum for m is at most the sum
\* for n, and for every such n the loops of sum_to_n_a and sum_to_n_b come to
\* their end.
C16_MonotonicAndTerminating ==
  /\ []SumMonotonic
  /\ (pcA = "loop") ~> (pcA = "done")
  /\ (pcB = "loop") ~> (pcB = "done")

\* a call for a smaller n returned a smaller sum than the call after it
C16_Witness ==
  /\ SumReturned
  /\ prevCall.made
  /\ prevCall.n < sumArg
  /\ prevCall.a < sumA
  /\ iA = sumArg + 1
  /\ iB = sumArg + 1

\* the retries of the running fetch are at most 3, retry k (counted from 0)
\* waits min(1000 * 2^k, 30000) ms, and the query is in error only after them
RetriesBounded ==
  /\ Len(delayLog) <= 3
  /\ \A k \in Indices(delayLog) :
       /\ delayLog[k] = Min(1000 * 2 ^ (k - 1), 30000)
       /\ delayLog[k] <= 30000
       /\ k > 1 => delayLog[k - 1] <= delayLog[k]
  /\ fetchStatus = "waiting" => (delayLog # <<>> /\ retryTimer = delayLog[Len(delayLog)])
  /\ fetchStatus # "waiting" => retryTimer = 0
  /\ (queryStatus = "error" /\ fetchStatus = "idle") =>
       (delayLog = <<1000, 2000, 4000>> /\ failureCount = 4)

\* the delay function itself, beyond the retries that are made
DelaysCapped ==
  \A k \in 0..MaxAttemptIndex :
    /\ retryDelay(k) = Min(1000 * 2 ^ k, 30000)
    /\ retryDelay(k) <= 30000
    /\ retryDelay(k) <= retryDelay(k + 1)

\* C12: a failed price fetch is retried at most 3 times, the delay before retry
\* k is min(1000 * 2^k, 30000) ms, the delays never decrease and never exceed
\* 30000 ms, and after the last retry has failed the query is in error and
\* fetches again only when Retry is clicked.
C12_BoundedBackoff ==
  /\ [](RetriesBounded /\ DelaysCapped)
  /\ [][(queryStatus = "error" /\ fetchStatus = "idle") =>
          (fetchStatus' = "idle" \/ refetchCount' = refetchCount + 1)]_vars

\* the first attempt and three retries have failed
C12_Witness ==
  /\ queryStatus = "error"
  /\ fetchStatus = "idle"
  /\ delayLog = <<1000, 2000, 4000>>
  /\ queryError = "Failed to fetch prices"
  /\ retryDelay(MaxAttemptIndex) = 30000

\* C21: in the form with one modal, whenever the modal is shown modalType is
\* 'send' or 'receive'; a step that closes the modal (a token is selected, or
\* the modal is dismissed) changes at most the currency of the side that
\* modalType names and leaves the other currency and the amounts as they are.
C21_ModalEditsItsSide ==
  /\ [](showModal => modalType \in {"send", "receive"})
  /\ [][(showModal /\ ~showModal') =>
          /\ modalType = "send" => receiveCurrency' = receiveCurrency
          /\ modalType = "receive" => sendCurrency' = sendCurrency
          /\ sendCurrency' \in filteredTokens(searchTerm) \cup {sendCurrency}
          /\ receiveCurrency' \in filteredTokens(searchTerm) \cup {receiveCurrency}
          /\ UNCHANGED <<sendAmount, receiveAmount, modalType>>]_vars

\* the modal was opened for the send side and another send currency was chosen
C21_Witness ==
  /\ ~showModal
  /\ modalType = "send"
  /\ swapCount = 0
  /\ sendCurrency = "USDT"
  /\ receiveCurrency = "ETH"
  /\ searchTerm = "eth"

\* the price of a currency is in the table
PriceKnown(c) == c \in DOMAIN swapPrices

\* the price of a currency is in the table and is not 0
PriceUsable(c) == PriceKnown(c) /\ swapPrices[c].v # 0

\* sendAmount * price(sendCurrency) / price(receiveCurrency) with 8 fraction
\* digits; no numeral when the price divided by is 0
ConvertedAmount ==
  IF swapPrices[receiveCurrency].v = 0 THEN [t |-> "not finite", v |-> 0, d |-> 0]
  ELSE Text(MulDivRound(sendAmount.v, swapPrices[sendCurrency].v,
                        swapPrices[receiveCurrency].v), 8)

\* C24, as stated: once the effects have run, receiveAmount is '' when
\* sendAmount is empty or a selected currency has no price, and otherwise it is
\* sendAmount * price(sendCurrency) / price(receiveCurrency).
C24_ReceiveFollowsKnownPrices ==
  ~effectDue =>
    receiveAmount =
      (IF sendAmount = EmptyText \/ ~PriceKnown(sendCurrency) \/ ~PriceKnown(receiveCurrency)
       THEN EmptyText ELSE ConvertedAmount)

\* C24, amended: once the effects have run, receiveAmount is '' when sendAmount
\* is empty or a selected currency has no price or the price 0, and otherwise
\* it is sendAmount * price(sendCurrency) / price(receiveCurrency) written with
\* 8 fraction digits.
C24_ReceiveFollowsUsablePrices ==
  ~effectDue =>
    receiveAmount =
      (IF sendAmount = EmptyText \/ ~PriceUsable(sendCurrency) \/ ~PriceUsable(receiveCurrency)
       THEN EmptyText ELSE ConvertedAmount)

\* after a click on swap the effect has run on an amount taken from the receive
\* side, for currencies with different prices
C24_Witness ==
  /\ ~effectDue
  /\ swapCount = 1
  /\ sendAmount.d = 8
  /\ receiveAmount.t = "text"
  /\ receiveAmount.v # sendAmount.v
  /\ swapFetch = "done"
\* the rate of the selected pair at the prices of the form
AppRate == getExchangeRate(appPrices, appFromToken, appToToken)

\* both selected tokens have a price that is not 0
AppPricesUsable ==
  PriceOrZero(appPrices, appFromToken) # 0 /\ PriceOrZero(appPrices, appToToken) # 0

\* value * price(from) / price(to) with 6 fraction digits: the amount of the
\* to token that is worth as much as value of the from token
ConservingAmount(value) ==
  Text(MulDivRound(value.v \div 100, PriceOrZero(appPrices, appFromToken),
                   PriceOrZero(appPrices, appToToken)) * 100, 6)

\* C22: while the form is shown with two prices that are not 0, the rate
\* satisfies rate * price(to) = price(from), and the toAmount that an edit of
\* the from amount fills in is worth the from amount: it is
\* fromAmount * price(from) / price(to), the conversion of the single-modal form.
C22_RateConservesValue ==
  (AppView = "form" /\ AppPricesUsable) =>
    /\ AppRate.num * PriceOrZero(appPrices, appToToken)
         = AppRate.den * PriceOrZero(appPrices, appFromToken)
    /\ \A value \in FromInputs \ {EmptyText} :
         handleFromAmountChange(AppValues, value, AppRate).toAmount = ConservingAmount(value)

\* toAmount is the from amount times the rate of the selected pair at the
\* prices of the form, with 6 fraction digits
ToAmountCurrent == toAmount = ToAmountValue(fromAmount, AppRate)

\* C23: while the form is shown, a toAmount that is not empty is fromAmount
\* times the rate of the selected pair at the current prices, and toAmount is
\* empty whenever fromAmount is empty.
C23_ToAmountFollowsFromAmount ==
  AppView = "form" =>
    /\ TruthyText(toAmount) => (TruthyText(fromAmount) /\ ToAmountCurrent)
    /\ ~TruthyText(fromAmount) => ~TruthyText(toAmount)
\* C25: loading eventually becomes false, whether the fetch succeeds or
\* throws; after a failed fetch error is set and prices is still the empty
\* map; the form is rendered only while loading is false and error is null.
C25_LoadingEndsAndFormNeedsPrices ==
  /\ appLoading ~> ~appLoading
  /\ [](appFetch = "failed" =>
          /\ appError = AppErrorOf("Failed to fetch prices")
          /\ appPrices = <<>>
          /\ AppView = "error")
  /\ [](AppView = "form" => (~appLoading /\ appError = AppNoError /\ appFetch = "done"))
  /\ []((fromAmount # EmptyText \/ appShowFromModal \/ appShowToModal \/ isSubmitting)
          => AppView = "form")

\* the fetch has succeeded: the form is shown, an amount was typed in and
\* converted with the fetched prices
C25_Witness ==
  /\ appFetch = "done"
  /\ AppView = "form"
  /\ appPrices # <<>>
  /\ fromAmount = Text(AmountScale, 0)
  /\ toAmount # EmptyText
\* submissions of the form with two modals that have started and not ended
AppInFlight == appTimers + (IF appAlert THEN 1 ELSE 0)

StatedPriority(blockchain) ==
  IF blockchain \in Configured THEN BLOCKCHAIN_PRIORITIES[blockchain] ELSE JsInt(-99)

\* positions of sortedBalances that hold the record r
PositionsOf(r) == { p \in Indices(sortedBalances) : Raw(sortedBalances[p]) = r }

\* C27: for every chain name of the balance list the table lookup of
\* OptimizedWalletPage returns the integer that the switch of
\* ProblematicWalletPage returns, the one of the table or -99; and a record
\* with a positive amount on a chain outside the table is in the sorted list of
\* the optimized page, after every record on a chain of the table.
C27_ResolversAgree ==
  OptimizedShown =>
    /\ \A i \in Indices(balancesWithPriority) :
         LET chain == balancesWithPriority[i].blockchain
         IN  /\ balancesWithPriority[i].priority = ProblematicGetPriority(chain)
             /\ balancesWithPriority[i].priority = StatedPriority(chain)
    /\ \A i \in Indices(mockBalances) :
         (mockBalances[i].blockchain \notin Configured
            /\ IsPositiveNumber(mockBalances[i].amount)) =>
           /\ PositionsOf(Raw(mockBalances[i])) # {}
           /\ \A p \in PositionsOf(Raw(mockBalances[i])), q \in Indices(sortedBalances) :
                 sortedBalances[q].blockchain \in Configured => q < p
====
